---- MODULE Spec2Model ----
(***************************************************************************)
(* The variable-rate clock `stopwatch` (stopwatch.hpp).                    *)
(*                                                                         *)
(* Time is counted in whole ticks of steady_clock::duration (Integers; the *)
(* rep is a signed 64-bit count, far from overflow at these sizes).  A     *)
(* speed, a long double in the source, is the rational n / RateDen and is  *)
(* stored as its numerator n; with RateDen a power of two every speed and  *)
(* every product (ticks * speed) of the model is exactly representable in  *)
(* the 64-bit mantissa of a long double, so the arithmetic below is the    *)
(* arithmetic of the code.  A duration<long double> is likewise stored as  *)
(* its numerator over RateDen.                                             *)
(***************************************************************************)
EXTENDS Integers, Sequences, FiniteSets, TLC

\* ---------------------------------------------------------------- bounds
\* Scale of the speeds: speed n stands for n / RateDen.
RateDen == 4
\* steady_clock's time since its epoch at construction ranges over 0..MaxStart.
MaxStart == 2
\* steady_clock advances at most this many ticks after construction.
MaxElapsed == 5
\* At most this many set_speed calls are made.
MaxSets == 2

\* The speeds handed to the constructor and to set_speed:
\* -1, -0.25, 0, 0.25, 1 and 2.5 (for RateDen = 4).
Speeds == {-RateDen, -1, 0, 1, RateDen, (5 * RateDen) \div 2}

StartTimes == 0..MaxStart

\* ---------------------------------------------------------------- state
VARIABLES
    steady,        \* steady_clock::now(), in ticks since its epoch
    m_sync,        \* <<steady time point, stopwatch time point>>
    m_speed,       \* the speed in force (numerator over RateDen)
    op,            \* the last event: "ctor", "now", "set_speed", "speed", "tick"
    ret,           \* what the last call returned ("void" when nothing)
    reads,         \* how often the last call read steady_clock
    \* history, kept for the properties only
    ctor_steady,   \* the constructor's reading of steady_clock
    ctor_default,  \* the constructor was called without an argument
    last_arg,      \* the speed last passed to the constructor or set_speed
    nsets,         \* number of set_speed calls so far
    exact,         \* RateDen * (ctor time + sum of segment ticks * speed), untruncated
    all_int,       \* every speed in force so far was a whole number
    always_zero,   \* every speed in force so far was 0
    A,             \* an earlier now(): <<steady reading, returned time point>>, or <<>>
    exactA,        \* exact when A was taken
    setsA          \* nsets when A was taken

vars == <<steady, m_sync, m_speed, op, ret, reads, ctor_steady, ctor_default,
          last_arg, nsets, exact, all_int, always_zero, A, exactA, setsA>>

\* ---------------------------------------------------------------- code
\* long double m_speed = 1 / stopwatch(long double speed = 1)
DefaultSpeed == RateDen

\* Faulty variant of duration_cast: rounds toward minus infinity.
duration_cast_floor(x) == x \div RateDen

\* std::chrono::duration_cast<duration>(duration<long double>): the conversion
\* of a long double to the integer rep truncates toward zero.
duration_cast(x) == IF x >= 0 THEN x \div RateDen ELSE -((-x) \div RateDen)

\* The object: its two data members.
self == [m_sync |-> m_sync, m_speed |-> m_speed]

\* Faulty variant of impl_now: the speed is taken without its sign.
impl_now_unsigned(this, steady_now) ==
    LET before_sync == this.m_sync[2]
        magnitude   == IF this.m_speed >= 0 THEN this.m_speed ELSE -this.m_speed
        after_sync  == duration_cast((steady_now - this.m_sync[1]) * magnitude)
    IN  <<steady_now, before_sync + after_sync>>

\* Faulty variant of impl_now: the time point is clamped at the origin.
impl_now_clamped(this, steady_now) ==
    LET before_sync == this.m_sync[2]
        after_sync  == duration_cast((steady_now - this.m_sync[1]) * this.m_speed)
        sum         == before_sync + after_sync
    IN  <<steady_now, IF sum < 0 THEN 0 ELSE sum>>

\* impl_now(): the pair {steady_now, before_sync + after_sync}.
impl_now(this, steady_now) ==
    LET before_sync == this.m_sync[2]
        after_sync  == duration_cast((steady_now - this.m_sync[1]) * this.m_speed)
    IN  <<steady_now, before_sync + after_sync>>

\* Faulty variant of the constructor: the stopwatch starts at its own epoch.
stopwatch_epoch_zero(speed, steady_now) ==
    [m_sync |-> <<steady_now, 0>>, m_speed |-> speed, reads |-> 1]

\* Faulty variant of the constructor: the argument is dropped and the member's
\* default initializer stays in force.
stopwatch_ignores_speed(speed, steady_now) ==
    [m_sync |-> <<steady_now, steady_now>>, m_speed |-> DefaultSpeed, reads |-> 1]

\* stopwatch(speed): one reading of steady_clock, both halves of m_sync from it.
stopwatch(speed, steady_now) ==
    LET steady_since_epoch == steady_now
    IN  [m_sync |-> <<steady_now, steady_since_epoch>>, m_speed |-> speed, reads |-> 1]

\* Faulty variant of now(): every call rebinds m_sync to what it computed.
now_rebinding(this, steady_now) ==
    LET r == impl_now(this, steady_now)
    IN  [m_sync |-> <<r[1], r[2]>>, m_speed |-> this.m_speed, ret |-> r[2], reads |-> 1]

\* now(): the object after the call, and the returned time point.
now(this, steady_now) ==
    [m_sync |-> this.m_sync, m_speed |-> this.m_speed,
     ret |-> impl_now(this, steady_now)[2], reads |-> 1]

\* Faulty variant of set_speed: the new speed is adopted before impl_now runs.
set_speed_adopts_first(this, speed, steady_now) ==
    LET r == impl_now([m_sync |-> this.m_sync, m_speed |-> speed], steady_now)
    IN  [m_sync |-> <<r[1], r[2]>>, m_speed |-> speed, reads |-> 1]

\* Faulty variant of set_speed: m_sync is not rebound.
set_speed_no_rebind(this, speed, steady_now) ==
    [m_sync |-> this.m_sync, m_speed |-> speed, reads |-> 1]

\* set_speed(speed): the object after the call.
set_speed(this, speed, steady_now) ==
    LET r == impl_now(this, steady_now)
    IN  [m_sync |-> <<r[1], r[2]>>, m_speed |-> speed, reads |-> 1]

\* Faulty variant of speed(): the speed is returned as a whole number (rep).
speed_as_rep(this) ==
    [m_sync |-> this.m_sync, m_speed |-> this.m_speed,
     ret |-> duration_cast(this.m_speed) * RateDen, reads |-> 0]

\* speed(): the object after the call, and the returned speed.
speed(this) ==
    [m_sync |-> this.m_sync, m_speed |-> this.m_speed, ret |-> this.m_speed, reads |-> 0]

IsWhole(s) == s % RateDen = 0

\* ---------------------------------------------------------------- behaviour
\* The state right after construction, at any start time, with any speed or none.
Init ==
    \E t0 \in StartTimes, s \in Speeds, d \in BOOLEAN :
        LET arg == IF d THEN DefaultSpeed ELSE s
            sw  == stopwatch(arg, t0)
        IN  /\ (d => s = DefaultSpeed)
            /\ steady = t0
            /\ m_sync = sw.m_sync
            /\ m_speed = sw.m_speed
            /\ op = "ctor"
            /\ ret = "void"
            /\ reads = sw.reads
            /\ ctor_steady = t0
            /\ ctor_default = d
            /\ last_arg = arg
            /\ nsets = 0
            /\ exact = t0 * RateDen
            /\ all_int = IsWhole(arg)
            /\ always_zero = (arg = 0)
            /\ A = <<>>
            /\ exactA = 0
            /\ setsA = 0

\* steady_clock advances by one tick; the piecewise-linear logical time
\* advances by one tick times the speed in force.
Tick ==
    /\ steady - ctor_steady < MaxElapsed
    /\ steady' = steady + 1
    /\ exact' = exact + m_speed
    /\ op' = "tick"
    /\ ret' = "void"
    /\ reads' = 0
    /\ UNCHANGED <<m_sync, m_speed, ctor_steady, ctor_default, last_arg, nsets,
                   all_int, always_zero, A, exactA, setsA>>

\* A call of now(); the caller may keep the result as the time point A.
Now ==
    \E keep \in BOOLEAN :
        LET r == now(self, steady)
        IN  /\ m_sync' = r.m_sync
            /\ m_speed' = r.m_speed
            /\ op' = "now"
            /\ ret' = r.ret
            /\ reads' = r.reads
            /\ A' = IF keep THEN <<steady, r.ret>> ELSE A
            /\ exactA' = IF keep THEN exact ELSE exactA
            /\ setsA' = IF keep THEN nsets ELSE setsA
            /\ UNCHANGED <<steady, ctor_steady, ctor_default, last_arg, nsets,
                           exact, all_int, always_zero>>

\* A call of set_speed(x).
SetSpeed ==
    /\ nsets < MaxSets
    /\ \E x \in Speeds :
        LET r == set_speed(self, x, steady)
        IN  /\ m_sync' = r.m_sync
            /\ m_speed' = r.m_speed
            /\ op' = "set_speed"
            /\ ret' = "void"
            /\ reads' = r.reads
            /\ last_arg' = x
            /\ nsets' = nsets + 1
            /\ all_int' = (all_int /\ IsWhole(x))
            /\ always_zero' = (always_zero /\ x = 0)
            /\ UNCHANGED <<steady, ctor_steady, ctor_default, exact, A, exactA, setsA>>

\* A call of speed().
Speed ==
    LET r == speed(self)
    IN  /\ m_sync' = r.m_sync
        /\ m_speed' = r.m_speed
        /\ op' = "speed"
        /\ ret' = r.ret
        /\ reads' = r.reads
        /\ UNCHANGED <<steady, ctor_steady, ctor_default, last_arg, nsets, exact,
                       all_int, always_zero, A, exactA, setsA>>

Next == Tick \/ Now \/ SetSpeed \/ Speed

Spec == Init /\ [][Next]_vars

\* ---------------------------------------------------------------- properties
Abs(x) == IF x >= 0 THEN x ELSE -x

\* n / RateDen truncated toward zero to whole ticks (the yardstick of the
\* properties, written apart from the model's duration_cast).
Trunc(n) == IF n >= 0 THEN n \div RateDen ELSE -((-n) \div RateDen)

\* The latest event is a now() and the caller holds an earlier time point A.
NowAfterA == op = "now" /\ A # <<>>

\* C1: continuity across a rate change. A now() made at the same steady
\* reading as an earlier now() returns the same time point, whatever set_speed
\* calls (old speed, new speed of any sign) lie between the two; and set_speed
\* leaves m_sync = (its steady reading, the time point now() gave at that
\* reading under the old speed) and m_speed = its argument.
C1_Continuity ==
    /\ (NowAfterA /\ A[1] = steady) => ret = A[2]
    /\ op = "set_speed" => (m_sync[1] = steady /\ m_speed = last_arg)
    /\ (op = "set_speed" /\ A # <<>> /\ A[1] = steady) => m_sync = A

\* C1 witness: now(), then one set_speed to a negative speed, then now(), all
\* at one steady reading, the clock having run at a fractional speed before.
C1_Witness ==
    /\ NowAfterA /\ A[1] = steady /\ nsets = setsA + 1
    /\ m_speed < 0
    /\ steady > ctor_steady
    /\ ret # steady
    /\ ~all_int

\* C2 as stated: B - A is exactly the sum of segment ticks * segment speed.
C2_Original ==
    (NowAfterA /\ nsets > setsA) => (ret - A[2]) * RateDen = exact - exactA

\* C2 (amended): with k >= 1 set_speed calls between the now() that returned A
\* and the now() that returns B, B - A differs from the sum of
\* segment ticks * segment speed by less than k + 1 ticks, and equals it
\* exactly when every speed is a whole number.
C2_Duration ==
    (NowAfterA /\ nsets > setsA) =>
        LET d == (ret - A[2]) * RateDen - (exact - exactA)
        IN  /\ Abs(d) < (nsets - setsA + 1) * RateDen
            /\ all_int => d = 0

\* C2 witness: A and B lie two set_speed calls apart, time has passed, and
\* B - A is the segment sum but not (elapsed ticks) * (final speed).
C2_Witness ==
    /\ NowAfterA /\ nsets = setsA + 2
    /\ steady > A[1] + 2
    /\ (ret - A[2]) * RateDen = exact - exactA
    /\ (ret - A[2]) * RateDen # (steady - A[1]) * m_speed
    /\ ret # A[2]

\* C3: linearity within a segment. now() returns m_sync.second plus
\* (reading - m_sync.first) * speed truncated toward zero; two now() calls with
\* no set_speed between differ by (t2 - t1) * speed to within one tick, the
\* later one not smaller for a positive speed, not larger for a negative one,
\* equal for speed 0.
C3_Linearity ==
    /\ op = "now" => ret = m_sync[2] + Trunc((steady - m_sync[1]) * m_speed)
    /\ (NowAfterA /\ setsA = nsets) =>
           /\ Abs((ret - A[2]) * RateDen - (steady - A[1]) * m_speed) < RateDen
           /\ m_speed > 0 => ret >= A[2]
           /\ m_speed < 0 => ret <= A[2]
           /\ m_speed = 0 => ret = A[2]

\* C3 witness: two now() calls in one segment at a negative fractional speed,
\* far enough apart for the time point to have moved.
C3_Witness ==
    /\ NowAfterA /\ setsA = nsets /\ nsets > 0
    /\ m_speed < 0 /\ ~(m_speed % RateDen = 0)
    /\ A[1] > m_sync[1]
    /\ ret < A[2]

\* C4: alignment at construction. The constructor reads steady_clock once and
\* sets both halves of m_sync from that reading; a now() with no tick and no
\* set_speed since returns that reading, whatever the initial speed.
C4_Alignment ==
    /\ op = "ctor" =>
           (reads = 1 /\ steady = ctor_steady /\ m_sync = <<ctor_steady, ctor_steady>>)
    /\ (op = "now" /\ nsets = 0 /\ steady = ctor_steady) => ret = ctor_steady

\* C4 witness: now() right after a construction with a speed other than 1, at
\* a non-zero steady reading.
C4_Witness ==
    /\ op = "now" /\ nsets = 0 /\ steady = ctor_steady
    /\ ~ctor_default /\ m_speed = -1
    /\ ctor_steady > 0

\* C5: speed() returns the speed last passed to set_speed, or to the
\* constructor when set_speed was never called, unchanged; a default-constructed
\* stopwatch has speed 1. The stored speed changes with no now() or tick.
C5_SpeedAccessor ==
    /\ m_speed = last_arg
    /\ op = "speed" => ret = last_arg
    /\ (ctor_default /\ nsets = 0) => m_speed = RateDen

\* C5 witness: speed() returns -0.25 (a fractional negative speed) set by
\* set_speed, after time has passed in that segment.
C5_Witness ==
    /\ op = "speed" /\ nsets > 0
    /\ ret = -1
    /\ steady > m_sync[1]

\* C6: only set_speed changes m_sync or m_speed after construction: now(),
\* speed() and the passing of time leave both as they were.
C6_Frame ==
    [][ /\ op' \in {"now", "speed", "tick"} => (m_sync' = m_sync /\ m_speed' = m_speed)
        /\ (m_sync' # m_sync \/ m_speed' # m_speed) => op' = "set_speed" ]_vars

\* C6 witness: a now() made after time has passed since the sync point, whose
\* result differs from m_sync.second: m_sync was not rebound by it.
C6_Witness ==
    /\ op = "now"
    /\ steady > m_sync[1]
    /\ ret # m_sync[2]
    /\ A # <<>> /\ A[1] < steady /\ A[1] > m_sync[1]

\* C7: stopped clock. While every speed since construction was 0, now()
\* returns the time of construction; while the speed is 0, now() returns
\* m_sync.second, the same as any other now() of that segment and the same as a
\* now() made at the steady reading of the set_speed(0) that stopped it.
C7_Stopped ==
    /\ (op = "now" /\ always_zero) => ret = ctor_steady
    /\ (op = "now" /\ m_speed = 0) => ret = m_sync[2]
    /\ (NowAfterA /\ m_speed = 0 /\ setsA = nsets) => ret = A[2]
    /\ (NowAfterA /\ m_speed = 0 /\ A[1] = m_sync[1]) => ret = A[2]

\* C7 witness: constructed with speed 0, set_speed(0) called again, time
\* passed, and now() still returns the time of construction.
C7_Witness ==
    /\ op = "now" /\ always_zero /\ nsets > 0
    /\ steady > m_sync[1] /\ m_sync[1] > ctor_steady
    /\ ret = ctor_steady

\* C7 second witness case is covered by C7_Stopped's last conjunct; the state
\* below (stopped by set_speed(0) after running) is reachable as well.
StoppedAfterRunning ==
    /\ NowAfterA /\ m_speed = 0 /\ ~always_zero
    /\ A[1] = m_sync[1] /\ setsA < nsets /\ steady > A[1]
    /\ ret # ctor_steady

\* C8 as stated: at a negative speed, a later now() of the same segment is
\* strictly smaller, for every advance of at least one tick.
C8_Original ==
    (NowAfterA /\ setsA = nsets /\ m_speed < 0 /\ A[1] < steady) => ret < A[2]

\* C8 (amended): at a negative speed, a later now() of the same segment is
\* never larger, and is strictly smaller once (t2 - t1) * |speed| is at least
\* one tick (so for every advance when the speed is -1 or less).
C8_Reverse ==
    (NowAfterA /\ setsA = nsets /\ m_speed < 0 /\ A[1] < steady) =>
        /\ ret <= A[2]
        /\ (steady - A[1]) * (-m_speed) >= RateDen => ret < A[2]

\* C8 witness: speed -0.25 and an advance long enough to lose a tick.
C8_Witness ==
    /\ NowAfterA /\ setsA = nsets /\ m_speed = -1
    /\ A[1] < steady
    /\ ret < A[2]

\* C9 as stated: at a negative speed, as soon as (t - m_sync.first) * |speed|
\* exceeds m_sync.second, now() returns a time point below the origin.
C9_Original ==
    (op = "now" /\ m_speed < 0
        /\ (steady - m_sync[1]) * (-m_speed) > m_sync[2] * RateDen) => ret < 0

\* C9 (amended): at a negative speed, as soon as (t - m_sync.first) * |speed|
\* reaches m_sync.second plus one tick, now() returns a time point below the
\* origin, which is m_sync.second + (t - m_sync.first) * speed truncated and is
\* not clamped; every speed is accepted; a set_speed made at a reading where
\* now() gave a time point below the origin stores that time point in m_sync.
C9_Underflow ==
    /\ (op = "now" /\ m_speed < 0
           /\ (steady - m_sync[1]) * (-m_speed) >= (m_sync[2] + 1) * RateDen) =>
           (ret < 0 /\ ret = m_sync[2] + Trunc((steady - m_sync[1]) * m_speed))
    /\ op = "set_speed" => m_speed = last_arg
    /\ (op = "set_speed" /\ A # <<>> /\ A[1] = steady /\ A[2] < 0) =>
           (m_sync[2] = A[2] /\ m_sync[2] < 0)

\* C9 witness: set_speed called while the time point is below the origin.
C9_Witness ==
    /\ op = "set_speed" /\ A # <<>> /\ A[1] = steady /\ A[2] < 0
    /\ m_sync[2] < 0

\* C9: a now() that returns a time point below the origin is reachable too.
BelowOrigin == op = "now" /\ m_speed < 0 /\ ret < 0 /\ m_sync[2] > 0

\* C10: bounded rounding drift. After k set_speed calls, now() differs from
\* the untruncated piecewise-linear time (construction time plus the sum of
\* segment ticks * segment speed) by less than k + 1 ticks, however many now()
\* calls were made; with whole-number speeds it does not differ at all.
C10_Drift ==
    op = "now" =>
        LET d == ret * RateDen - exact
        IN  /\ Abs(d) < (nsets + 1) * RateDen
            /\ all_int => d = 0

\* C10 witness: after two set_speed calls now() is more than one tick away
\* from the untruncated time.
C10_Witness ==
    /\ op = "now" /\ nsets = 2
    /\ Abs(ret * RateDen - exact) > RateDen

====
